---- MODULE Spec2Model ----
(***************************************************************************)
(* A model of the ruby-ai-chatbot server routes.                           *)
(*                                                                         *)
(*   SpecRelay  : the chat relay route, app/api/chat/route.ts (POST, the   *)
(*                Groq streaming loop and the Qwen pass-through).          *)
(*   SpecUpload : the upload route, app/api/upload/route.ts and its        *)
(*                variants (suffix dispatch, clean-up, truncation).        *)
(*   SpecGenerate : the generate route (POST submits a task, GET polls).   *)
(*   SpecUI     : the ChatBot component (send, stream reader, clear,       *)
(*                attachments, model picker) in its three variants.        *)
(*   SpecReader : the read loop of sendMessage on the relay's byte stream, *)
(*                for every way the transport cuts it into chunks.         *)
(*                                                                         *)
(* Text that is concatenated (stream fragments) is a sequence of           *)
(* characters; text whose length matters (uploaded documents) is a         *)
(* sequence of runs [ch, n], n copies of the character ch.                 *)
(***************************************************************************)
EXTENDS Integers, Sequences, FiniteSets, TLC

VARIABLES
    req,          \* the chat request body {messages, model, provider}
    pc,           \* position of the chat POST handler / its stream callback
    callOutcome,  \* how the vendor call of this request ended
    vendorCalls,  \* the vendor requests issued so far, in order
    resp,         \* the HTTP response the chat route returned
    out,          \* events enqueued on the response body, in order
    outState,     \* state of the response body stream
    vendorChunks, \* chunks the vendor stream has delivered so far
    vendorState,  \* state of the vendor's stream
    variant,      \* which variant of the upload route is deployed
    file,         \* the uploaded form field 'file'
    upc,          \* position of the upload POST handler
    uresp,        \* the HTTP response the upload route returned
    extractCalls, \* the text extractions the upload route has run
    greq,         \* the request to the generate route (method and parameters)
    gpc,          \* position of the generate handler
    gcalls,       \* the vendor calls the generate route has issued, in order
    gvendor,      \* the vendor's answer to the generate route's call
    gresp,        \* the HTTP response the generate route returned
    uiVariant,    \* which variant of the ChatBot component is mounted
    messages,     \* ChatBot state: the conversation shown
    input,        \* ChatBot state: the text in the textarea
    isLoading,    \* ChatBot state: an exchange is in progress
    uploadedDoc,  \* ChatBot state: the attached document, or none
    pastedImage,  \* ChatBot state: the pasted image, or none
    selectedModel, \* ChatBot state: the id chosen in the model picker
    exchanges,    \* the sendMessage calls in progress, with the request in
                  \* flight, the chunks still to come and the chunks received
    sends,        \* number of chat requests dispatched so far
    rEmitted,     \* stream reader: the events the relay emitted
    rWire,        \* stream reader: the part of the byte stream not yet delivered
    rAssistant,   \* stream reader: assistantMessage, the fragments appended so far
    rSentinel,    \* stream reader: a sentinel line has been read
    rpc           \* stream reader: position of the read loop

relayVars == <<req, pc, callOutcome, vendorCalls, resp, out, outState,
               vendorChunks, vendorState>>
uploadVars == <<variant, file, upc, uresp, extractCalls>>
genVars == <<greq, gpc, gcalls, gvendor, gresp>>
vars == <<req, pc, callOutcome, vendorCalls, resp, out, outState,
          vendorChunks, vendorState, variant, file, upc, uresp, extractCalls,
          greq, gpc, gcalls, gvendor, gresp,
          uiVariant, messages, input, isLoading, uploadedDoc, pastedImage,
          selectedModel, exchanges, sends,
          rEmitted, rWire, rAssistant, rSentinel, rpc>>
readerVars == <<rEmitted, rWire, rAssistant, rSentinel, rpc>>
uiVars == <<uiVariant, messages, input, isLoading, uploadedDoc, pastedImage,
            selectedModel, exchanges, sends>>
nonRelayVars == <<uploadVars, genVars, uiVars, readerVars>>
nonUploadVars == <<relayVars, genVars, uiVars, readerVars>>
nonGenVars == <<relayVars, uploadVars, uiVars, readerVars>>
nonUiVars == <<relayVars, uploadVars, genVars, readerVars>>
nonReaderVars == <<relayVars, uploadVars, genVars, uiVars>>

--------------------------------------------------------------------------
(* Bounds *)

MaxMsgs == 2
MaxChunks == 3

--------------------------------------------------------------------------
(* JavaScript values *)

\* a field that is absent from a JSON object
Undefined == "<undefined>"

\* JavaScript truthiness of an optional string
Truthy(v) == v # Undefined /\ v # ""

\* string contents of a chat message (ChatMessage.content as string)
Str(t) == [str |-> t]

NoResponse == [status |-> 0, ctype |-> "none", error |-> Undefined]

--------------------------------------------------------------------------
(* Chat relay: request shaping *)

Roles == {"user", "assistant"}
Contents == {"t1"}
Images == {Undefined, "", "data:image/png;base64,AAAA"}

ChatMessage == [role : Roles, content : {Str(t) : t \in Contents}, image : Images]

RECURSIVE SeqsUpTo(_, _)
SeqsUpTo(S, n) ==
    IF n = 0 THEN {<<>>}
    ELSE LET shorter == SeqsUpTo(S, n - 1)
         IN  shorter \cup {Append(s, e) : s \in {t \in shorter : Len(t) = n - 1}, e \in S}

RequestedModels == {Undefined, "", "qwen3-max"}
Providers == {Undefined, "groq", "qwen", "QWEN"}

DefaultModel == "meta-llama/llama-4-maverick-17b-128e-instruct"

\* the fixed instruction text; its three backquotes are written as three quotes
SystemPrompt == "You are Ruby, a helpful AI assistant. Guidelines:\n- Be concise and direct\n- For coding questions: provide code solution first, then brief explanations\n- Use markdown with proper code blocks ('''language)\n- Be friendly but efficient"

systemMessage == [role |-> "system", content |-> Str(SystemPrompt)]

formatMessage_NoExpand(msg) == [role |-> msg.role, content |-> msg.content]

formatMessage(msg) ==
    IF Truthy(msg.image)
    THEN [role |-> msg.role,
          content |-> [parts |-> << [type |-> "text", text |-> msg.content],
                                    [type |-> "image_url", image_url |-> [url |-> msg.image]] >>]]
    ELSE [role |-> msg.role, content |-> msg.content]

formattedMessages(msgs) == [i \in 1..Len(msgs) |-> formatMessage(msgs[i])]

\* the messages.map of callQwenAPI
callQwenMessages(msgs) ==
    [i \in 1..Len(msgs) |-> [role |-> msgs[i].role, content |-> msgs[i].content]]

selectModel_Ignore(requestedModel) == DefaultModel

selectModel(requestedModel) ==
    IF Truthy(requestedModel) THEN requestedModel ELSE DefaultModel

isQwen_Loose(provider) == provider \in {"qwen", "QWEN"}

isQwen(provider) == provider = "qwen"

qwenRequest(model, fm) ==
    [vendor |-> "qwen", model |-> model,
     messages |-> callQwenMessages(<<[role |-> "user", content |-> Str(SystemPrompt)]>> \o fm)]

groqRequest(model, fm) ==
    [vendor |-> "groq", model |-> model, messages |-> <<systemMessage>> \o fm]

--------------------------------------------------------------------------
(* Chat relay: events on the response body *)

ContentEvent(content) == [kind |-> "content", text |-> content]
DoneEvent == [kind |-> "done", text |-> <<>>]
\* a vendor-format completion chunk (choices[0].delta.content), forwarded as is
VendorEvent(content) == [kind |-> "choices", text |-> content]

\* chunk.choices[0]?.delta?.content of a vendor chunk
ChunkContents == {<<>>, <<"a">>, <<"b", "c">>}
Chunks == {[present |-> FALSE, text |-> <<>>]}
          \cup {[present |-> TRUE, text |-> c] : c \in ChunkContents}

\* chunk.choices[0]?.delta?.content, or the empty string when that is falsy
chunkContent(chunk) == IF chunk.present THEN chunk.text ELSE <<>>

enqueueContent_NoFilter(o, content) == Append(o, ContentEvent(content))

\* if (content) controller.enqueue(data: {content})
enqueueContent(o, content) ==
    IF content # <<>> THEN Append(o, ContentEvent(content)) ELSE o

streamError_SentinelAndClose(o) == [events |-> Append(o, DoneEvent), state |-> "closed"]

\* controller.error(error): the body errors, nothing more is enqueued
streamError(o) == [events |-> o, state |-> "errored"]

responseOk_Always(outcome) == TRUE

\* response.ok of the Qwen fetch; the Groq SDK throws on the same outcomes
responseOk(outcome) == outcome = "ok"

ErrorResponse ==
    [status |-> 500, ctype |-> "application/json", error |-> "Failed to generate response"]
StreamResponse ==
    [status |-> 200, ctype |-> "text/event-stream", error |-> Undefined]

--------------------------------------------------------------------------
(* Chat relay: the handler *)

Outcomes == {"ok", "non2xx", "transport"}

InitRelayVars ==
    /\ req \in [messages : SeqsUpTo(ChatMessage, MaxMsgs),
                model : RequestedModels,
                provider : Providers]
    /\ pc = "start"
    /\ callOutcome = "none"
    /\ vendorCalls = <<>>
    /\ resp = NoResponse
    /\ out = <<>>
    /\ outState = "none"
    /\ vendorChunks = <<>>
    /\ vendorState = "none"

\* POST up to the point where it returns its Response
ChatPOST ==
    /\ pc = "start"
    /\ \E outcome \in Outcomes :
        LET fm == formattedMessages(req.messages)
            model == selectModel(req.model)
            qwen == isQwen(req.provider)
            call == IF qwen THEN qwenRequest(model, fm) ELSE groqRequest(model, fm)
            \* fetch rejects on a transport error; a non-2xx status is thrown
            \* by the route (qwen) or by the SDK (groq)
            failed == outcome = "transport" \/ ~responseOk(outcome)
        IN  /\ callOutcome' = outcome
            /\ vendorCalls' = Append(vendorCalls, call)
            /\ IF failed
               THEN /\ resp' = ErrorResponse
                    /\ pc' = "done"
                    /\ outState' = "none"
                    /\ vendorState' = "failed"
               ELSE /\ resp' = StreamResponse
                    /\ pc' = IF qwen THEN "pipe" ELSE "read"
                    /\ outState' = "open"
                    /\ vendorState' = "open"
    /\ UNCHANGED <<req, out, vendorChunks>>
    /\ UNCHANGED nonRelayVars

\* for await (const chunk of completion): the vendor delivers the next chunk
GroqRead ==
    /\ pc = "read"
    /\ Len(vendorChunks) < MaxChunks
    /\ \E chunk \in Chunks : vendorChunks' = Append(vendorChunks, chunk)
    /\ pc' = "emit"
    /\ UNCHANGED <<req, callOutcome, vendorCalls, resp, out, outState, vendorState>>
    /\ UNCHANGED nonRelayVars

\* the loop body for the chunk just read
GroqEmit ==
    /\ pc = "emit"
    /\ out' = enqueueContent(out, chunkContent(vendorChunks[Len(vendorChunks)]))
    /\ pc' = "read"
    /\ UNCHANGED <<req, callOutcome, vendorCalls, resp, outState, vendorChunks, vendorState>>
    /\ UNCHANGED nonRelayVars

\* the vendor stream ends: enqueue the sentinel and close
GroqEnd ==
    /\ pc = "read"
    /\ vendorState' = "ended"
    /\ out' = Append(out, DoneEvent)
    /\ outState' = "closed"
    /\ pc' = "done"
    /\ UNCHANGED <<req, callOutcome, vendorCalls, resp, vendorChunks>>
    /\ UNCHANGED nonRelayVars

\* the vendor stream throws: catch (error) { controller.error(error) }
GroqFail ==
    /\ pc = "read"
    /\ vendorState' = "failed"
    /\ out' = streamError(out).events
    /\ outState' = streamError(out).state
    /\ pc' = "done"
    /\ UNCHANGED <<req, callOutcome, vendorCalls, resp, vendorChunks>>
    /\ UNCHANGED nonRelayVars

\* new Response(response.body): a vendor chunk event passes through unchanged
QwenPipe ==
    /\ pc = "pipe"
    /\ Len(vendorChunks) < MaxChunks
    /\ \E chunk \in Chunks :
        /\ vendorChunks' = Append(vendorChunks, chunk)
        /\ out' = Append(out, VendorEvent(chunk.text))
    /\ UNCHANGED <<req, pc, callOutcome, vendorCalls, resp, outState, vendorState>>
    /\ UNCHANGED nonRelayVars

\* the vendor finishes its body with its own sentinel line, which passes through
QwenEnd ==
    /\ pc = "pipe"
    /\ vendorState' = "ended"
    /\ out' = Append(out, DoneEvent)
    /\ outState' = "closed"
    /\ pc' = "done"
    /\ UNCHANGED <<req, callOutcome, vendorCalls, resp, vendorChunks>>
    /\ UNCHANGED nonRelayVars

\* the vendor body breaks off: the piped response body errors with it
QwenFail ==
    /\ pc = "pipe"
    /\ vendorState' = "failed"
    /\ outState' = "errored"
    /\ pc' = "done"
    /\ UNCHANGED <<req, callOutcome, vendorCalls, resp, out, vendorChunks>>
    /\ UNCHANGED nonRelayVars

--------------------------------------------------------------------------
(* Upload route: file names *)

\* the variants of the upload route:
\*   "pdf_disabled" answers every .pdf with 400,
\*   "pdf_guarded"  wraps pdf-parse in its own try/catch,
\*   "pdf_import"   imports pdf-parse dynamically,
\*   "pdf_custom"   calls pdf-parse/lib/pdf-parse through extractPdfText
Variants == {"pdf_disabled", "pdf_guarded", "pdf_import", "pdf_custom"}

FileNames ==
    { <<"a", ".", "p", "d", "f">>,
      <<"A", ".", "P", "D", "F">>,
      <<"a", ".", "d", "o", "c", "x">>,
      <<"a", ".", "D", "o", "c", "X">>,
      <<"a", ".", "t", "x", "t">>,
      <<"a", ".", "T", "X", "T">>,
      <<"a", ".", "m", "d">>,
      <<"a", ".", "e", "x", "e">>,
      <<"a", ".", "t", "x", "t", ".", "e", "x", "e">>,
      <<"a", ".", "m", "d", "x">>,
      <<"p", "d", "f">>,
      <<>> }

lowerChar(c) ==
    CASE c = "A" -> "a" [] c = "P" -> "p" [] c = "D" -> "d" [] c = "F" -> "f"
      [] c = "T" -> "t" [] c = "X" -> "x"
      [] OTHER -> c

\* String.prototype.toLowerCase
toLowerCase(s) == [i \in 1..Len(s) |-> lowerChar(s[i])]

endsWith_Includes(s, suffix) ==
    \E i \in 1..Len(s) :
        i + Len(suffix) - 1 <= Len(s) /\ SubSeq(s, i, i + Len(suffix) - 1) = suffix

\* String.prototype.endsWith
endsWith(s, suffix) ==
    /\ Len(suffix) <= Len(s)
    /\ SubSeq(s, Len(s) - Len(suffix) + 1, Len(s)) = suffix

SuffixPdf == <<".", "p", "d", "f">>
SuffixDocx == <<".", "d", "o", "c", "x">>
SuffixTxt == <<".", "t", "x", "t">>
SuffixMd == <<".", "m", "d">>

\* the if / else if chain on fileName
fileKind(fileName) ==
    IF endsWith(fileName, SuffixPdf) THEN "pdf"
    ELSE IF endsWith(fileName, SuffixDocx) THEN "docx"
    ELSE IF endsWith(fileName, SuffixTxt) \/ endsWith(fileName, SuffixMd) THEN "text"
    ELSE "unsupported"

--------------------------------------------------------------------------
(* Upload route: text *)

MaxRuns == 3

maxLength == 50000

TextChars == {"a", "b", " ", "\n"}
RunLens == {1, maxLength - 1, maxLength}

Run == [ch : TextChars, n : RunLens]

\* texts in which no two adjacent runs repeat the same character
Texts == {t \in SeqsUpTo(Run, MaxRuns) : \A i \in 1..(Len(t) - 1) : t[i].ch # t[i + 1].ch}

\* the character class \s
IsSpace(ch) == ch \in {" ", "\n", "\t"}

SpaceRun == [ch |-> " ", n |-> 1]

MarkerLong == "... [Document truncated due to length]"
MarkerShort == "... [Document truncated]"

truncationMarker(v) == IF v = "pdf_import" THEN MarkerShort ELSE MarkerLong

\* number of characters of the string a run repeats
chLen(ch) == IF ch = MarkerLong THEN 38 ELSE IF ch = MarkerShort THEN 24 ELSE 1

RECURSIVE textLength(_)
\* String.prototype.length
textLength(t) ==
    IF t = <<>> THEN 0 ELSE Head(t).n * chLen(Head(t).ch) + textLength(Tail(t))

collapseWhitespace_PerChar(t) ==
    [i \in 1..Len(t) |-> IF IsSpace(t[i].ch) THEN [ch |-> " ", n |-> t[i].n] ELSE t[i]]

RECURSIVE collapseWhitespace(_)
\* .replace(/\s+/g, ' ')
collapseWhitespace(t) ==
    IF t = <<>> THEN <<>>
    ELSE LET h == Head(t)
             r == collapseWhitespace(Tail(t))
         IN  IF IsSpace(h.ch)
             THEN IF r # <<>> /\ r[1] = SpaceRun THEN r ELSE <<SpaceRun>> \o r
             ELSE <<h>> \o r

RECURSIVE trimStart(_)
trimStart(t) ==
    IF t # <<>> /\ IsSpace(Head(t).ch) THEN trimStart(Tail(t)) ELSE t

RECURSIVE trimEnd(_)
trimEnd(t) ==
    IF t # <<>> /\ IsSpace(t[Len(t)].ch) THEN trimEnd(SubSeq(t, 1, Len(t) - 1)) ELSE t

\* String.prototype.trim
trim(t) == trimEnd(trimStart(t))

\* the clean-up of the extracted text
cleanUp(t) == trim(collapseWhitespace(t))

RECURSIVE substring(_, _)
\* String.prototype.substring(0, n)
substring(t, n) ==
    IF t = <<>> \/ n <= 0 THEN <<>>
    ELSE LET h == Head(t)
         IN  IF h.n <= n
             THEN <<h>> \o substring(Tail(t), n - h.n)
             ELSE <<[ch |-> h.ch, n |-> n]>>

tooLong_AtLimit(t) == textLength(t) >= maxLength

\* extractedText.length > maxLength
tooLong(t) == textLength(t) > maxLength

\* the truncation of the cleaned text
truncate(t, v) ==
    IF tooLong(t)
    THEN substring(t, maxLength) \o <<[ch |-> truncationMarker(v), n |-> 1]>>
    ELSE t

--------------------------------------------------------------------------
(* Upload route: the handler *)

NoFile == [present |-> FALSE, name |-> <<>>, text |-> <<>>, parseOk |-> TRUE]

Files == {NoFile} \cup [present : {TRUE}, name : FileNames, text : Texts, parseOk : BOOLEAN]

ErrNoFile == "No file provided"
ErrPdfDisabled == "PDF upload is temporarily unavailable. Please use DOCX, TXT, or MD files."
ErrPdfParse == "Failed to parse PDF. Please try a different file."
ErrUnsupportedNoPdf == "Unsupported file type. Please upload DOCX, TXT, or MD files."
ErrUnsupported == "Unsupported file type. Please upload PDF, DOCX, TXT, or MD files."
ErrProcess == "Failed to process file"

unsupportedError(v) == IF v = "pdf_disabled" THEN ErrUnsupportedNoPdf ELSE ErrUnsupported

errorJson(status, error) == [status |-> status, error |-> error]

successJson(fileName, text) ==
    [status |-> 200, success |-> TRUE, fileName |-> fileName, text |-> text,
     characterCount |-> textLength(text)]

noFileResponse_Unchecked == errorJson(500, ErrProcess)

\* if (!file) return 400
noFileResponse == errorJson(400, ErrNoFile)

\* the extractor the route runs for a kind of file, if any
extractorOf(v, kind) ==
    IF kind = "pdf" THEN (IF v = "pdf_disabled" THEN <<>> ELSE <<"pdf-parse">>)
    ELSE IF kind = "docx" THEN <<"mammoth">>
    ELSE IF kind = "text" THEN <<"utf-8">>
    ELSE <<>>

\* the response of POST for a file that is present
uploadResponse(v, f) ==
    LET kind == fileKind(toLowerCase(f.name))
        done == successJson(f.name, truncate(cleanUp(f.text), v))
    IN  IF kind = "pdf"
        THEN IF v = "pdf_disabled" THEN errorJson(400, ErrPdfDisabled)
             ELSE IF f.parseOk THEN done
             ELSE IF v = "pdf_guarded" THEN errorJson(400, ErrPdfParse)
             ELSE errorJson(500, ErrProcess)
        ELSE IF kind = "docx"
        THEN IF f.parseOk THEN done ELSE errorJson(500, ErrProcess)
        ELSE IF kind = "text" THEN done
        ELSE errorJson(400, unsupportedError(v))

InitUploadVars ==
    /\ variant \in Variants
    /\ file \in Files
    /\ upc = "start"
    /\ uresp = [status |-> 0]
    /\ extractCalls = <<>>

\* POST of the upload route
UploadPOST ==
    /\ upc = "start"
    /\ IF ~file.present
       THEN /\ uresp' = noFileResponse
            /\ extractCalls' = extractCalls
       ELSE /\ uresp' = uploadResponse(variant, file)
            /\ extractCalls' = extractCalls \o extractorOf(variant, fileKind(toLowerCase(file.name)))
    /\ upc' = "done"
    /\ UNCHANGED <<variant, file>>
    /\ UNCHANGED nonUploadVars

--------------------------------------------------------------------------
(* Generate route: JSON values of the vendor's answer *)

JUndef == [t |-> "undefined"]
JStr(v) == [t |-> "string", v |-> v]

\* truthiness of a JSON value
JTruthy(x) == x.t = "object" \/ (x.t = "string" /\ x.v # "")

\* x?.field
Get(x, field) == IF x.t = "object" /\ field \in DOMAIN x THEN x[field] ELSE JUndef

orElse_Second(a, b) == b

\* a || b
orElse(a, b) == IF JTruthy(a) THEN a ELSE b

\* the result of a task: absent, or an object with or without a url
TaskResults == {JUndef, [t |-> "object", url |-> JUndef], [t |-> "object", url |-> JStr("u1")]}

TaskInfos ==
    {JUndef} \cup [t : {"object"},
                   task_id : {JUndef, JStr("t1")},
                   status : {JUndef, JStr(""), JStr("succeeded")},
                   result : TaskResults]

VendorData ==
    [task_info : TaskInfos,
     id : {JUndef, JStr("id2")},
     status : {JUndef, JStr("processing")},
     result : {JUndef, [t |-> "object", url |-> JUndef]},
     url : {JUndef, JStr("u2")}]

\* the non-success statuses of the vendor
VendorStatuses == {400, 401, 429, 500, 503}

VendorAnswers ==
    [kind : {"ok"}, status : {200}, data : VendorData]
    \cup [kind : {"status"}, status : VendorStatuses, data : {JUndef}]
    \cup [kind : {"throw"}, status : {0}, data : {JUndef}]

NoAnswer == [kind |-> "none", status |-> 0, data |-> JUndef]

--------------------------------------------------------------------------
(* Generate route: requests and vendor calls *)

Prompts == {Undefined, "", "a cat"}
MediaTypes == {Undefined, "", "image", "video", "audio"}
AspectRatios == {Undefined, "16:9"}
Resolutions == {Undefined, "4K"}
TaskIds == {Undefined, "", "t1"}

ImageEndpoint == "https://api.mulerouter.ai/vendors/google/v1/nano-banana-pro/generation"
VideoEndpoint == "https://api.mulerouter.ai/vendors/alibaba/v1/wan2/t2v/generation"

\* aspectRatio || '1:1', resolution || '2K'
withDefault(v, default) == IF Truthy(v) THEN v ELSE default

generateImage(prompt, aspectRatio, resolution) ==
    [method |-> "POST", endpoint |-> ImageEndpoint,
     body |-> [prompt |-> prompt,
               aspect_ratio |-> withDefault(aspectRatio, "1:1"),
               resolution |-> withDefault(resolution, "2K")]]

generateVideo(prompt) ==
    [method |-> "POST", endpoint |-> VideoEndpoint,
     body |-> [prompt |-> prompt, width |-> 1280, height |-> 720]]

submitCalls_VideoByDefault(r) ==
    IF r.type = "image"
    THEN <<generateImage(r.prompt, withDefault(r.aspectRatio, "1:1"), withDefault(r.resolution, "2K"))>>
    ELSE <<generateVideo(r.prompt)>>

\* the vendor call POST makes for a request with a prompt, if any
submitCalls(r) ==
    IF r.type = "image"
    THEN <<generateImage(r.prompt, withDefault(r.aspectRatio, "1:1"), withDefault(r.resolution, "2K"))>>
    ELSE IF r.type = "video" THEN <<generateVideo(r.prompt)>>
    ELSE <<>>

checkTaskStatus_ImageByDefault(taskId, type) ==
    [method |-> "GET",
     endpoint |-> IF type = "video" THEN VideoEndpoint ELSE ImageEndpoint,
     taskId |-> taskId]

checkTaskStatus(taskId, type) ==
    [method |-> "GET",
     endpoint |-> IF type = "image" THEN ImageEndpoint ELSE VideoEndpoint,
     taskId |-> taskId]

GenErr(msg) == [msg |-> msg, code |-> 0]

genError(http, error) == [http |-> http, body |-> [error |-> error]]

failureStatus_Always500(answer) == 500

\* { status: response.status }
failureStatus(answer) == answer.status

\* the response of POST once the vendor has answered
submitResponse(r, answer) ==
    IF answer.kind = "throw" THEN genError(500, GenErr("Failed to generate"))
    ELSE IF answer.kind = "status"
    THEN genError(failureStatus(answer), [msg |-> "Generation failed: ", code |-> answer.status])
    ELSE [http |-> 200,
          body |-> [success |-> TRUE,
                    taskId |-> orElse(Get(answer.data.task_info, "task_id"), answer.data.id),
                    status |-> orElse(Get(answer.data.task_info, "status"), JStr("processing")),
                    type |-> r.type]]

\* the response of GET once the vendor has answered
pollResponse(answer) ==
    IF answer.kind = "throw" THEN genError(500, GenErr("Failed to check status"))
    ELSE IF answer.kind = "status"
    THEN genError(answer.status, GenErr("Failed to check status"))
    ELSE LET data == answer.data
             info == data.task_info
         IN  [http |-> 200,
              body |-> [status |-> orElse(Get(info, "status"), data.status),
                        result |-> orElse(Get(info, "result"), data.result),
                        url |-> orElse(Get(Get(info, "result"), "url"), data.url)]]

--------------------------------------------------------------------------
(* Generate route: the handlers *)

GenRequests ==
    [method : {"POST"}, prompt : Prompts, type : MediaTypes,
     aspectRatio : AspectRatios, resolution : Resolutions, taskId : {Undefined}]
    \cup [method : {"GET"}, prompt : {Undefined}, type : MediaTypes,
          aspectRatio : {Undefined}, resolution : {Undefined}, taskId : TaskIds]

NoGenResponse == [http |-> 0, body |-> [error |-> GenErr("")]]

InitGenVars ==
    /\ greq \in GenRequests
    /\ gpc = "start"
    /\ gcalls = <<>>
    /\ gvendor = NoAnswer
    /\ gresp = NoGenResponse

\* POST of the generate route
GeneratePOST ==
    /\ gpc = "start"
    /\ greq.method = "POST"
    /\ IF ~Truthy(greq.prompt)
       THEN /\ gresp' = genError(400, GenErr("Prompt is required"))
            /\ UNCHANGED <<gcalls, gvendor>>
       ELSE IF submitCalls(greq) = <<>>
       THEN /\ gresp' = genError(400, GenErr("Invalid type. Use \"image\" or \"video\""))
            /\ UNCHANGED <<gcalls, gvendor>>
       ELSE \E answer \in VendorAnswers :
            /\ gcalls' = gcalls \o submitCalls(greq)
            /\ gvendor' = answer
            /\ gresp' = submitResponse(greq, answer)
    /\ gpc' = "done"
    /\ UNCHANGED greq
    /\ UNCHANGED nonGenVars

\* GET of the generate route
GenerateGET ==
    /\ gpc = "start"
    /\ greq.method = "GET"
    /\ IF ~Truthy(greq.taskId) \/ ~Truthy(greq.type)
       THEN /\ gresp' = genError(400, GenErr("taskId and type are required"))
            /\ UNCHANGED <<gcalls, gvendor>>
       ELSE \E answer \in VendorAnswers :
            /\ gcalls' = Append(gcalls, checkTaskStatus(greq.taskId, greq.type))
            /\ gvendor' = answer
            /\ gresp' = pollResponse(answer)
    /\ gpc' = "done"
    /\ UNCHANGED greq
    /\ UNCHANGED nonGenVars

--------------------------------------------------------------------------
(* Chat UI: values *)

MaxSends == 2

\* the variants of the ChatBot component:
\*   "basic"  text only,
\*   "attach" with document upload and image paste,
\*   "models" with document upload, image paste and the model picker
UiVariants == {"basic", "attach", "models"}

MODELS ==
    << [id |-> "meta-llama/llama-4-maverick-17b-128e-instruct", provider |-> "groq"],
       [id |-> "meta-llama/llama-4-scout-17b-16e-instruct", provider |-> "groq"],
       [id |-> "llama-3.3-70b-versatile", provider |-> "groq"],
       [id |-> "llama-3.1-8b-instant", provider |-> "groq"],
       [id |-> "mixtral-8x7b-32768", provider |-> "groq"],
       [id |-> "qwen3-max", provider |-> "qwen"],
       [id |-> "qwen3-235b-a22b", provider |-> "qwen"],
       [id |-> "qwen3-30b-a3b", provider |-> "qwen"],
       [id |-> "qwen3-32b", provider |-> "qwen"] >>

\* the options of the picker the user clicks: one model of each provider
PickedModels == {MODELS[1].id, MODELS[6].id}

providerOf_AlwaysGroq(modelId) == "groq"

\* MODELS.find(m => m.id === selectedModel)?.provider || 'groq'
providerOf(modelId) ==
    IF \E i \in 1..Len(MODELS) : MODELS[i].id = modelId
    THEN MODELS[CHOOSE i \in 1..Len(MODELS) :
                  MODELS[i].id = modelId /\ \A j \in 1..(i - 1) : MODELS[j].id # modelId].provider
    ELSE "groq"

\* texts the textarea can hold
Inputs == {"", "  ", "hi"}

\* String.prototype.trim on the texts of Inputs
trimInput(v) == IF v = "  " THEN "" ELSE v

\* the images the user can paste, and the empty slot
NoImage == 0
PastedImages == {1, 2}

NoDoc == [fileName |-> Undefined, text |-> Undefined]
Docs == {[fileName |-> "notes.txt", text |-> "DOCUMENT TEXT"]}

ImageQuestion == "What do you see in this image?"
Apology == "Sorry, something went wrong. Please try again."

\* a string written as the sequence of the pieces it concatenates
isEmptyString(c) == \A i \in 1..Len(c) : c[i] = ""

\* the template that merges the document into the user's question
documentContent(doc, question) ==
    <<"[Document: ", doc.fileName, "]\n\nDocument Content:\n", doc.text,
      "\n\n---\n\nUser Question: ", question>>

userMessageOf_NoImage(role, content, image) == [role |-> role, content |-> content, image |-> NoImage]

\* a message of the conversation
userMessageOf(role, content, image) == [role |-> role, content |-> content, image |-> image]

assistantMessage(content) == [role |-> "assistant", content |-> content, image |-> NoImage]

\* the lines of a decoded chunk: a data line with a content fragment, the
\* sentinel line, or a line that yields nothing (blank, not a data line,
\* invalid JSON, JSON without content)
ContentLine(f) == [kind |-> "content", text |-> f]
DoneLine == [kind |-> "done", text |-> ""]
OtherLine == [kind |-> "other", text |-> ""]

\* the streams the relay can deliver, as the chunks the reader receives:
\* fragments then the sentinel, the sentinel before a data line, and a
\* stream that ends without a sentinel
Streams ==
    { << <<ContentLine("a"), OtherLine>>, <<ContentLine("b"), DoneLine>> >>,
      << <<DoneLine, ContentLine("b")>> >>,
      << <<OtherLine, ContentLine("a")>> >> }

processLines_Overwrite(lines, assistant) ==
    IF \E i \in 1..Len(lines) : lines[i].kind = "content"
    THEN <<lines[CHOOSE i \in 1..Len(lines) : lines[i].kind = "content"].text>>
    ELSE assistant

RECURSIVE processLines(_, _)
\* for (const line of lines): the assistant text after the lines of one chunk
processLines(lines, assistant) ==
    IF lines = <<>> THEN assistant
    ELSE LET line == Head(lines)
         IN  IF line.kind = "done" THEN assistant
             ELSE IF line.kind = "content" /\ line.text # ""
             THEN processLines(Tail(lines), Append(assistant, line.text))
             ELSE processLines(Tail(lines), assistant)

canSend_IgnoreLoading(text, image, loading) == ~(trimInput(text) = "" /\ image = NoImage)

\* the negation of: (!input.trim() && !pastedImage) || isLoading
canSend(text, image, loading) ==
    ~((trimInput(text) = "" /\ image = NoImage) \/ loading)

\* userContent of sendMessage
userContent(text, doc, image, conversation) ==
    LET typed == <<trimInput(text)>>
        merged == IF doc # NoDoc /\ Len(conversation) = 0
                  THEN documentContent(doc, trimInput(text))
                  ELSE typed
    IN  IF image # NoImage /\ isEmptyString(merged) THEN <<ImageQuestion>> ELSE merged

\* the content of displayMessage
displayContent(text) ==
    IF trimInput(text) = "" THEN <<ImageQuestion>> ELSE <<trimInput(text)>>

placeholderBase_Alone(x) == <<>>

\* the messages the empty assistant placeholder is appended to
placeholderBase(x) == IF uiVariant = "attach" THEN x.request.messages ELSE x.display

loadingAfterFinally_Kept == TRUE

\* finally { setIsLoading(false) }
loadingAfterFinally == FALSE

failureMessages_KeepPartial(x) ==
    Append(Append(x.display, assistantMessage(x.assistant)), assistantMessage(<<Apology>>))

\* the conversation the catch block sets
failureMessages(x) == Append(x.display, assistantMessage(<<Apology>>))

requestBody(sent) ==
    IF uiVariant = "models"
    THEN [messages |-> sent, model |-> selectedModel, provider |-> providerOf(selectedModel)]
    ELSE [messages |-> sent, model |-> Undefined, provider |-> Undefined]

NoRequest == [messages |-> <<>>, model |-> Undefined, provider |-> Undefined]

RemoveAt(s, i) == SubSeq(s, 1, i - 1) \o SubSeq(s, i + 1, Len(s))

--------------------------------------------------------------------------
(* Chat UI: handlers *)

InitUiVars ==
    /\ uiVariant \in UiVariants
    /\ messages = <<>>
    /\ input = ""
    /\ isLoading = FALSE
    /\ uploadedDoc = NoDoc
    /\ pastedImage = NoImage
    /\ selectedModel = IF uiVariant = "models" THEN MODELS[1].id ELSE Undefined
    /\ exchanges = <<>>
    /\ sends = 0

\* typing in the textarea (disabled while loading), or a suggestion button of
\* the welcome screen
UISetInput ==
    /\ \E v \in Inputs :
        /\ v # input
        /\ ~isLoading \/ (messages = <<>> /\ trimInput(v) # "")
        /\ input' = v
    /\ UNCHANGED <<uiVariant, messages, isLoading, uploadedDoc, pastedImage,
                   selectedModel, exchanges, sends>>
    /\ UNCHANGED nonUiVars

\* handlePaste, the onPaste handler of the textarea (disabled while loading),
\* with the FileReader callback that stores the image
UIPaste ==
    /\ uiVariant # "basic"
    /\ ~isLoading
    /\ \E image \in PastedImages :
        /\ image # pastedImage
        /\ pastedImage' = image
    /\ UNCHANGED <<uiVariant, messages, input, isLoading, uploadedDoc,
                   selectedModel, exchanges, sends>>
    /\ UNCHANGED nonUiVars

\* the remove-image button
UIRemoveImage ==
    /\ uiVariant # "basic"
    /\ pastedImage # NoImage
    /\ pastedImage' = NoImage
    /\ UNCHANGED <<uiVariant, messages, input, isLoading, uploadedDoc,
                   selectedModel, exchanges, sends>>
    /\ UNCHANGED nonUiVars

\* handleFileUpload: the upload route has answered with the extracted text
UIUploaded ==
    /\ uiVariant # "basic"
    /\ \E doc \in Docs : uploadedDoc # doc /\ uploadedDoc' = doc
    /\ UNCHANGED <<uiVariant, messages, input, isLoading, pastedImage,
                   selectedModel, exchanges, sends>>
    /\ UNCHANGED nonUiVars

\* the remove-document button
UIRemoveDoc ==
    /\ uiVariant # "basic"
    /\ uploadedDoc # NoDoc
    /\ uploadedDoc' = NoDoc
    /\ UNCHANGED <<uiVariant, messages, input, isLoading, pastedImage,
                   selectedModel, exchanges, sends>>
    /\ UNCHANGED nonUiVars

\* an option of the model picker
UISelectModel ==
    /\ uiVariant = "models"
    /\ \E i \in 1..Len(MODELS) :
        /\ MODELS[i].id \in PickedModels
        /\ MODELS[i].id # selectedModel
        /\ selectedModel' = MODELS[i].id
    /\ UNCHANGED <<uiVariant, messages, input, isLoading, uploadedDoc, pastedImage,
                   exchanges, sends>>
    /\ UNCHANGED nonUiVars

\* clearChat
UIClear ==
    /\ messages' = <<>>
    /\ uploadedDoc' = IF uiVariant = "basic" THEN uploadedDoc ELSE NoDoc
    /\ UNCHANGED <<uiVariant, input, isLoading, pastedImage,
                   selectedModel, exchanges, sends>>
    /\ UNCHANGED nonUiVars

\* sendMessage up to the dispatch of the request (send button or Enter)
UISend ==
    IF canSend(input, pastedImage, isLoading) /\ sends < MaxSends
    THEN LET userMessage == userMessageOf("user",
                                userContent(input, uploadedDoc, pastedImage, messages),
                                pastedImage)
             displayMessage == userMessageOf("user",
                                IF uiVariant = "basic" THEN <<trimInput(input)>>
                                ELSE displayContent(input),
                                pastedImage)
             newMessages == Append(messages, userMessage)
             displayMessages == Append(messages, displayMessage)
         IN  /\ messages' = displayMessages
             /\ input' = ""
             /\ pastedImage' = NoImage
             /\ isLoading' = TRUE
             /\ sends' = sends + 1
             /\ exchanges' = Append(exchanges,
                                [display |-> displayMessages,
                                 request |-> requestBody(newMessages),
                                 assistant |-> <<>>, phase |-> "fetching",
                                 stream |-> <<>>, received |-> <<>>])
             /\ UNCHANGED <<uiVariant, uploadedDoc, selectedModel>>
             /\ UNCHANGED nonUiVars
    ELSE UNCHANGED vars

\* the relay answers: the placeholder is appended, or the catch and finally run
UIResponse ==
    /\ \E i \in 1..Len(exchanges) :
        /\ exchanges[i].phase = "fetching"
        /\ \/ \E stream \in Streams :
                /\ messages' = Append(placeholderBase(exchanges[i]), assistantMessage(<<>>))
                /\ exchanges' = [exchanges EXCEPT ![i].phase = "streaming",
                                                  ![i].request = NoRequest,
                                                  ![i].stream = stream]
                /\ UNCHANGED isLoading
           \/ /\ messages' = failureMessages(exchanges[i])
              /\ exchanges' = RemoveAt(exchanges, i)
              /\ isLoading' = loadingAfterFinally
    /\ UNCHANGED <<uiVariant, input, uploadedDoc, pastedImage, selectedModel, sends>>
    /\ UNCHANGED nonUiVars

\* reader.read() delivers a chunk and its lines are processed
UIRead ==
    /\ \E i \in 1..Len(exchanges) :
        /\ exchanges[i].phase = "streaming"
        /\ exchanges[i].stream # <<>>
        /\ LET assistant == processLines(Head(exchanges[i].stream), exchanges[i].assistant)
           IN  /\ exchanges' = [exchanges EXCEPT ![i].assistant = assistant,
                                                 ![i].stream = Tail(exchanges[i].stream),
                                                 ![i].received =
                                                     Append(exchanges[i].received,
                                                            Head(exchanges[i].stream))]
               /\ messages' = IF assistant # exchanges[i].assistant
                              THEN Append(exchanges[i].display, assistantMessage(assistant))
                              ELSE messages
    /\ UNCHANGED <<uiVariant, input, isLoading, uploadedDoc, pastedImage, selectedModel, sends>>
    /\ UNCHANGED nonUiVars

\* reader.read() reports done: the loop ends and finally runs
UIStreamEnd ==
    /\ \E i \in 1..Len(exchanges) :
        /\ exchanges[i].phase = "streaming"
        /\ exchanges[i].stream = <<>>
        /\ exchanges' = RemoveAt(exchanges, i)
    /\ isLoading' = loadingAfterFinally
    /\ UNCHANGED <<uiVariant, messages, input, uploadedDoc, pastedImage, selectedModel, sends>>
    /\ UNCHANGED nonUiVars

\* reader.read() rejects: the catch and finally run
UIStreamError ==
    /\ \E i \in 1..Len(exchanges) :
        /\ exchanges[i].phase = "streaming"
        /\ messages' = failureMessages(exchanges[i])
        /\ exchanges' = RemoveAt(exchanges, i)
    /\ isLoading' = loadingAfterFinally
    /\ UNCHANGED <<uiVariant, input, uploadedDoc, pastedImage, selectedModel, sends>>
    /\ UNCHANGED nonUiVars

--------------------------------------------------------------------------
(* Stream reader: the relay's bytes and the read loop of sendMessage *)

MaxEvents == 3

\* the events the relay can enqueue: {content: fragment} and the sentinel
WireEvents == {ContentLine("a"), ContentLine("b"), DoneLine}

\* the byte stream as pieces a chunk boundary can fall between: the prefix
\* of a data line, the two halves of a JSON payload, the sentinel payload
\* and the newline
PrefixPiece == [t |-> "data: ", f |-> "", part |-> 0]
JsonPiece(f, k) == [t |-> "json", f |-> f, part |-> k]
DonePiece == [t |-> "[DONE]", f |-> "", part |-> 0]
Newline == [t |-> "\n", f |-> "", part |-> 0]

\* encoder.encode of the relay: data: {content}\n\n and data: [DONE]\n\n
encodeEvent(e) ==
    IF e.kind = "done"
    THEN <<PrefixPiece, DonePiece, Newline, Newline>>
    ELSE <<PrefixPiece, JsonPiece(e.text, 1), JsonPiece(e.text, 2), Newline, Newline>>

RECURSIVE encodeStream(_)
encodeStream(events) ==
    IF events = <<>> THEN <<>>
    ELSE encodeEvent(Head(events)) \o encodeStream(Tail(events))

RECURSIVE splitLines(_)
\* chunk.split('\n')
splitLines(chunk) ==
    IF \A i \in 1..Len(chunk) : chunk[i] # Newline
    THEN <<chunk>>
    ELSE LET i == CHOOSE k \in 1..Len(chunk) :
                    chunk[k] = Newline /\ \A j \in 1..(k - 1) : chunk[j] # Newline
         IN  <<SubSeq(chunk, 1, i - 1)>> \o splitLines(SubSeq(chunk, i + 1, Len(chunk)))

\* JSON.parse(data) succeeds on a whole payload only
parsesAsJson(data) ==
    /\ Len(data) = 2
    /\ data[1].t = "json" /\ data[1].part = 1
    /\ data[2] = JsonPiece(data[1].f, 2)

\* what the loop body makes of one line: startsWith('data: '), slice(6),
\* the sentinel test, JSON.parse in a try/catch
parseLine(line) ==
    IF line = <<>> \/ Head(line) # PrefixPiece THEN OtherLine
    ELSE LET data == Tail(line)
         IN  IF data = <<DonePiece>> THEN DoneLine
             ELSE IF parsesAsJson(data) THEN ContentLine(data[1].f)
             ELSE OtherLine

linesOf(chunk) ==
    LET lines == splitLines(chunk)
    IN  [i \in 1..Len(lines) |-> parseLine(lines[i])]

InitReaderVars ==
    /\ rEmitted \in SeqsUpTo(WireEvents, MaxEvents)
    /\ rWire = encodeStream(rEmitted)
    /\ rAssistant = <<>>
    /\ rSentinel = FALSE
    /\ rpc = "reading"

\* reader.read() delivers the next chunk, cut anywhere, and its lines are
\* processed
ReaderRead ==
    /\ rpc = "reading"
    /\ \E n \in 1..Len(rWire) :
        LET lines == linesOf(SubSeq(rWire, 1, n))
        IN  /\ rAssistant' = processLines(lines, rAssistant)
            /\ rSentinel' = (rSentinel \/ \E i \in 1..Len(lines) : lines[i] = DoneLine)
            /\ rWire' = SubSeq(rWire, n + 1, Len(rWire))
    /\ UNCHANGED <<rEmitted, rpc>>
    /\ UNCHANGED nonReaderVars

\* reader.read() reports done
ReaderDone ==
    /\ rpc = "reading"
    /\ rWire = <<>>
    /\ rpc' = "closed"
    /\ UNCHANGED <<rEmitted, rWire, rAssistant, rSentinel>>
    /\ UNCHANGED nonReaderVars

--------------------------------------------------------------------------
(* Specifications *)

IdleRelayVars ==
    /\ req = [messages |-> <<>>, model |-> Undefined, provider |-> Undefined]
    /\ pc = "idle"
    /\ callOutcome = "none"
    /\ vendorCalls = <<>>
    /\ resp = NoResponse
    /\ out = <<>>
    /\ outState = "none"
    /\ vendorChunks = <<>>
    /\ vendorState = "none"

IdleUploadVars ==
    /\ variant = "pdf_custom"
    /\ file = NoFile
    /\ upc = "idle"
    /\ uresp = [status |-> 0]
    /\ extractCalls = <<>>

IdleGenVars ==
    /\ greq = [method |-> "none", prompt |-> Undefined, type |-> Undefined,
               aspectRatio |-> Undefined, resolution |-> Undefined, taskId |-> Undefined]
    /\ gpc = "idle"
    /\ gcalls = <<>>
    /\ gvendor = NoAnswer
    /\ gresp = NoGenResponse

IdleReaderVars ==
    /\ rEmitted = <<>>
    /\ rWire = <<>>
    /\ rAssistant = <<>>
    /\ rSentinel = FALSE
    /\ rpc = "idle"

IdleUiVars ==
    /\ uiVariant = "models"
    /\ messages = <<>>
    /\ input = ""
    /\ isLoading = FALSE
    /\ uploadedDoc = NoDoc
    /\ pastedImage = NoImage
    /\ selectedModel = MODELS[1].id
    /\ exchanges = <<>>
    /\ sends = 0

InitRelay == InitRelayVars /\ IdleUploadVars /\ IdleGenVars /\ IdleUiVars /\ IdleReaderVars

NextRelay ==
    \/ ChatPOST
    \/ GroqRead
    \/ GroqEmit
    \/ GroqEnd
    \/ GroqFail
    \/ QwenPipe
    \/ QwenEnd
    \/ QwenFail

SpecRelay == InitRelay /\ [][NextRelay]_vars

InitUpload == InitUploadVars /\ IdleRelayVars /\ IdleGenVars /\ IdleUiVars /\ IdleReaderVars

NextUpload == UploadPOST

SpecUpload == InitUpload /\ [][NextUpload]_vars

InitGenerate == InitGenVars /\ IdleRelayVars /\ IdleUploadVars /\ IdleUiVars /\ IdleReaderVars

NextGenerate ==
    \/ GeneratePOST
    \/ GenerateGET

SpecGenerate == InitGenerate /\ [][NextGenerate]_vars

InitUI == InitUiVars /\ IdleRelayVars /\ IdleUploadVars /\ IdleGenVars /\ IdleReaderVars

NextUI ==
    \/ UISetInput
    \/ UIPaste
    \/ UIRemoveImage
    \/ UIUploaded
    \/ UIRemoveDoc
    \/ UISelectModel
    \/ UIClear
    \/ UISend
    \/ UIResponse
    \/ UIRead
    \/ UIStreamEnd
    \/ UIStreamError

SpecUI == InitUI /\ [][NextUI]_vars

\* the relay's response eventually arrives, and its stream is eventually
\* read to its end
SpecUILive == SpecUI /\ WF_vars(UIResponse \/ UIRead \/ UIStreamEnd)

InitReader ==
    InitReaderVars /\ IdleRelayVars /\ IdleUploadVars /\ IdleGenVars /\ IdleUiVars

NextReader == ReaderRead \/ ReaderDone

SpecReader == InitReader /\ [][NextReader]_vars

--------------------------------------------------------------------------
(* Chat relay: properties *)

Last(s) == s[Len(s)]
Front(s) == SubSeq(s, 1, Len(s) - 1)

RECURSIVE Concat(_)
\* the concatenation of a sequence of character sequences
Concat(ss) == IF ss = <<>> THEN <<>> ELSE Head(ss) \o Concat(Tail(ss))

\* the vendor's full completion: its fragments concatenated
Completion == Concat([i \in 1..Len(vendorChunks) |-> chunkContent(vendorChunks[i])])

\* what a reader of the documented event format obtains from the events
ReceivedText(o) ==
    LET c == SelectSeq(o, LAMBDA e : e.kind = "content")
    IN  Concat([i \in 1..Len(c) |-> c[i].text])

\* the normalized events of the non-empty fragments among chunks, in order
FragmentEvents(chunks) ==
    LET f == SelectSeq(chunks, LAMBDA c : c.present /\ c.text # <<>>)
    IN  [i \in 1..Len(f) |-> [kind |-> "content", text |-> f[i].text]]

Called(v) == vendorCalls # <<>> /\ vendorCalls[1].vendor = v

\* C1: for a non-empty message list and either provider, once the vendor's
\* stream has ended the relay has emitted content fragments whose
\* concatenation is the vendor's full completion, then exactly one DONE
\* sentinel as the last event, and the output stream is closed.
C1_CompletionThenOneSentinel ==
    (pc = "done" /\ vendorState = "ended" /\ req.messages # <<>>) =>
        /\ out # <<>>
        /\ Last(out) = DoneEvent
        /\ \A i \in 1..(Len(out) - 1) : out[i].kind = "content"
        /\ ReceivedText(out) = Completion
        /\ outState = "closed"

\* C2: in the streaming loop the events emitted are exactly the vendor's
\* non-empty fragments in arrival order, chunks with empty or missing content
\* produce no event, and fragment k is out before chunk k+1 is read.
C2_LoopEmitsNonEmptyFragmentsInOrder ==
    /\ pc = "read" => out = FragmentEvents(vendorChunks)
    /\ pc = "emit" => out = FragmentEvents(Front(vendorChunks))
    /\ (pc = "done" /\ Called("groq") /\ outState = "closed")
          => out = FragmentEvents(vendorChunks) \o <<DoneEvent>>
    /\ (pc = "done" /\ Called("groq") /\ outState = "errored")
          => out = FragmentEvents(vendorChunks)

C2_Witness ==
    /\ pc = "read"
    /\ Len(vendorChunks) = 3
    /\ vendorChunks[2].text = <<>>
    /\ Len(out) = 2
    /\ out[1] # out[2]

\* C3: both providers produce the same normalized output: for the vendor
\* fragments delivered, the events are {content: fragment} for each non-empty
\* fragment, then the DONE sentinel, on the groq path and the qwen path alike.
C3_SameEventsOnBothPaths ==
    /\ \A i \in 1..Len(out) : out[i].kind \in {"content", "done"}
    /\ (pc = "done" /\ vendorState = "ended")
          => out = FragmentEvents(vendorChunks) \o <<DoneEvent>>

\* C4: a request with an empty message list is answered with an error and no
\* vendor call is made for it.
C4_EmptyMessagesRejected ==
    req.messages = <<>> =>
        /\ vendorCalls = <<>>
        /\ pc \notin {"start", "idle"} => (resp.status >= 400 /\ resp.error # Undefined)

C6_SystemRoleInstructionFirst ==
    \A k \in 1..Len(vendorCalls) :
        LET m == vendorCalls[k].messages
        IN  /\ Len(m) = Len(req.messages) + 1
            /\ m[1].role = "system"
            /\ m[1].content = Str(SystemPrompt)
            /\ \A j \in 1..Len(req.messages) : m[j + 1].role = req.messages[j].role

CarriesImage(msg) == msg.image # Undefined /\ msg.image # ""

\* C7: on either path a message with an inline image is sent as a text part
\* holding its text followed by an image part holding the image, a message
\* without an image is sent with its content unchanged, and order and roles
\* are kept.
C7_ImageMessagesExpanded ==
    \A k \in 1..Len(vendorCalls) :
        LET m == vendorCalls[k].messages
        IN  /\ Len(m) = Len(req.messages) + 1
            /\ \A j \in 1..Len(req.messages) :
                 LET src == req.messages[j]
                     sent == m[j + 1]
                 IN  /\ sent.role = src.role
                     /\ DOMAIN sent = {"role", "content"}
                     /\ IF CarriesImage(src)
                        THEN sent.content =
                               [parts |-> << [type |-> "text", text |-> src.content],
                                             [type |-> "image_url",
                                              image_url |-> [url |-> src.image]] >>]
                        ELSE sent.content = src.content

C7_Witness ==
    /\ Called("qwen")
    /\ Len(req.messages) = 2
    /\ CarriesImage(req.messages[1])
    /\ ~CarriesImage(req.messages[2])
    /\ req.messages[1].role # req.messages[2].role

\* C8: Qwen is called exactly when provider is 'qwen', Groq otherwise; one
\* vendor is called per request; the model sent is the caller's model, or the
\* default model id when that is missing or empty, whatever the provider.
C8_ProviderAndModelSelection ==
    /\ pc = "start" => vendorCalls = <<>>
    /\ pc \notin {"start", "idle"} =>
        /\ Len(vendorCalls) = 1
        /\ vendorCalls[1].vendor \in {"groq", "qwen"}
        /\ vendorCalls[1].vendor = "qwen" <=> req.provider = "qwen"
        /\ vendorCalls[1].model =
              IF req.model = Undefined \/ req.model = ""
              THEN "meta-llama/llama-4-maverick-17b-128e-instruct"
              ELSE req.model

C8_Witness ==
    /\ req.provider = "QWEN"
    /\ req.model = "qwen3-max"
    /\ Called("groq")
    /\ vendorCalls[1].model = "qwen3-max"

--------------------------------------------------------------------------
(* Upload route: properties *)

AcceptedSuffixes(v) ==
    IF v = "pdf_disabled" THEN {SuffixDocx, SuffixTxt, SuffixMd}
    ELSE {SuffixPdf, SuffixDocx, SuffixTxt, SuffixMd}

\* name ends in suffix when letter case is ignored
EndsInIgnoringCase(name, suffix) ==
    /\ Len(suffix) <= Len(name)
    /\ \A k \in 1..Len(suffix) : lowerChar(name[Len(name) - Len(suffix) + k]) = suffix[k]

HasAcceptedSuffix(name, v) == \E suffix \in AcceptedSuffixes(v) : EndsInIgnoringCase(name, suffix)

\* the file formats an error message tells the caller to use
FormatsNamed(error) ==
    IF error \in {ErrPdfDisabled, ErrUnsupportedNoPdf} THEN {"DOCX", "TXT", "MD"}
    ELSE IF error = ErrUnsupported THEN {"PDF", "DOCX", "TXT", "MD"}
    ELSE {}

AcceptedFormats(v) ==
    IF v = "pdf_disabled" THEN {"DOCX", "TXT", "MD"} ELSE {"PDF", "DOCX", "TXT", "MD"}

\* C9: an upload whose file name does not end, ignoring case, in an accepted
\* suffix is answered 400 with an error naming the accepted formats, whatever
\* its bytes, and no text extraction runs for it.
C9_UnsupportedSuffixIs400 ==
    (upc = "done" /\ file.present /\ ~HasAcceptedSuffix(file.name, variant)) =>
        /\ uresp.status = 400
        /\ DOMAIN uresp = {"status", "error"}
        /\ FormatsNamed(uresp.error) = AcceptedFormats(variant)
        /\ extractCalls = <<>>

C9_Witness ==
    /\ upc = "done"
    /\ file.present
    /\ file.name = <<"a", ".", "t", "x", "t", ".", "e", "x", "e">>
    /\ file.text # <<>>
    /\ uresp.status = 400

\* p is the text of the first characters of t
IsPrefixText(p, t) ==
    \/ p = <<>>
    \/ /\ Len(p) <= Len(t)
       /\ \A i \in 1..(Len(p) - 1) : p[i] = t[i]
       /\ p[Len(p)].ch = t[Len(p)].ch
       /\ p[Len(p)].n <= t[Len(p)].n

IsMarkerRun(r) == r.ch \in {MarkerLong, MarkerShort}

\* C10: for a successful upload, a cleaned text longer than 50,000 characters
\* is returned as its first 50,000 characters followed by the truncation
\* marker; a cleaned text of at most 50,000 characters is returned unchanged
\* and without a marker.
C10_TruncationAtLimit ==
    (upc = "done" /\ uresp.status = 200) =>
        LET cleaned == cleanUp(file.text)
        IN  IF textLength(cleaned) > 50000
            THEN /\ Len(uresp.text) >= 2
                 /\ Last(uresp.text) = [ch |-> truncationMarker(variant), n |-> 1]
                 /\ textLength(Front(uresp.text)) = 50000
                 /\ IsPrefixText(Front(uresp.text), cleaned)
                 /\ \A i \in 1..(Len(uresp.text) - 1) : ~IsMarkerRun(uresp.text[i])
            ELSE /\ uresp.text = cleaned
                 /\ \A i \in 1..Len(uresp.text) : ~IsMarkerRun(uresp.text[i])

C10_Witness ==
    /\ upc = "done"
    /\ uresp.status = 200
    /\ textLength(cleanUp(file.text)) > 50000
    /\ textLength(cleanUp(file.text)) < textLength(file.text)
    /\ Len(uresp.text) = 3

C10_WitnessAtLimit ==
    /\ upc = "done"
    /\ uresp.status = 200
    /\ textLength(cleanUp(file.text)) = 50000
    /\ uresp.text = cleanUp(file.text)

\* the runs of t at the positions in K from position i on, in order
RECURSIVE RunsAt(_, _, _)
RunsAt(t, i, K) ==
    IF i > Len(t) THEN <<>>
    ELSE (IF i \in K THEN <<t[i]>> ELSE <<>>) \o RunsAt(t, i + 1, K)

\* t with every maximal whitespace run that lies between two other characters
\* replaced by one space, and the whitespace at both ends removed
Normalized(t) ==
    LET Inner(i) == /\ i > 1
                    /\ ~IsSpace(t[i - 1].ch)
                    /\ \E j \in (i + 1)..Len(t) : ~IsSpace(t[j].ch)
        kept == RunsAt(t, 1, {i \in 1..Len(t) : IsSpace(t[i].ch) => Inner(i)})
    IN  [i \in 1..Len(kept) |-> IF IsSpace(kept[i].ch) THEN [ch |-> " ", n |-> 1] ELSE kept[i]]

\* t holds no whitespace but single spaces, none of them adjacent to another
OnlySingleSpaces(t) ==
    /\ \A i \in 1..Len(t) : IsSpace(t[i].ch) => t[i] = [ch |-> " ", n |-> 1]
    /\ \A i \in 1..(Len(t) - 1) : ~(IsSpace(t[i].ch) /\ IsSpace(t[i + 1].ch))

\* the returned text without the truncation marker
ReturnedBody ==
    IF uresp.text # <<>> /\ IsMarkerRun(Last(uresp.text)) THEN Front(uresp.text) ELSE uresp.text

\* C11: for a successful upload the text before truncation is the extracted
\* text with each whitespace run replaced by one space and the ends trimmed;
\* it has no whitespace but single, non-adjacent spaces, does not start or end
\* with whitespace, and cleaning it again leaves it unchanged.
C11_CleanedTextIsNormalized ==
    (upc = "done" /\ uresp.status = 200) =>
        LET cleaned == Normalized(file.text)
        IN  /\ IsPrefixText(ReturnedBody, cleaned)
            /\ OnlySingleSpaces(ReturnedBody)
            /\ textLength(cleaned) <= 50000 =>
                 /\ uresp.text = cleaned
                 /\ cleaned # <<>> => ~IsSpace(cleaned[1].ch) /\ ~IsSpace(Last(cleaned).ch)
                 /\ cleanUp(uresp.text) = uresp.text

C11_Witness ==
    /\ upc = "done"
    /\ uresp.status = 200
    /\ Len(file.text) = 3
    /\ ~IsSpace(file.text[1].ch)
    /\ file.text[2].ch = "\n"
    /\ file.text[2].n > 1
    /\ ~IsSpace(file.text[3].ch)
    /\ uresp.text = <<file.text[1], [ch |-> " ", n |-> 1], file.text[3]>>

\* the extraction of the uploaded file ran and threw
ExtractionThrew ==
    /\ file.present
    /\ ~file.parseOk
    /\ extractCalls \in {<<"pdf-parse">>, <<"mammoth">>}

\* every error response is a JSON body with the error alone
ErrorsCarryErrorOnly ==
    (upc = "done" /\ uresp.status # 200) =>
        /\ DOMAIN uresp = {"status", "error"}
        /\ uresp.status \in {400, 500}
        /\ uresp.error \in {ErrNoFile, ErrPdfDisabled, ErrPdfParse, ErrUnsupportedNoPdf,
                            ErrUnsupported, ErrProcess}

\* C12 as stated: 400 without a file, 500 when the extraction of a DOCX or
\* PDF file throws, and every error response is a JSON {error} body without
\* success, text or characterCount.
C12_Original ==
    /\ (upc = "done" /\ ~file.present) => uresp.status = 400
    /\ (upc = "done" /\ ExtractionThrew) => uresp.status = 500
    /\ ErrorsCarryErrorOnly

\* C12 (amended): 400 without a file; when the extraction throws, 500 for a
\* DOCX file and for a PDF file, except in the variant that wraps the PDF
\* parser in its own try/catch, which answers 400 for a PDF; every error
\* response is a JSON {error} body without success, text or characterCount.
C12_ErrorStatuses ==
    /\ (upc = "done" /\ ~file.present) => (uresp.status = 400 /\ extractCalls = <<>>)
    /\ (upc = "done" /\ ExtractionThrew) =>
          uresp.status = IF variant = "pdf_guarded" /\ EndsInIgnoringCase(file.name, SuffixPdf)
                         THEN 400 ELSE 500
    /\ ErrorsCarryErrorOnly

C12_Witness ==
    /\ upc = "done"
    /\ variant = "pdf_custom"
    /\ ExtractionThrew
    /\ EndsInIgnoringCase(file.name, SuffixPdf)
    /\ uresp = [status |-> 500, error |-> "Failed to process file"]

--------------------------------------------------------------------------
(* Generate route: properties *)

HasValue(x) == x # [t |-> "undefined"] /\ x # [t |-> "string", v |-> ""]

ValidPrompt == greq.prompt # Undefined /\ greq.prompt # ""

ErrorBodyOnly == DOMAIN gresp.body = {"error"}

\* C13: POST /generate without a prompt or with a type other than 'image' or
\* 'video' answers 400 and calls no vendor; with a prompt and a valid type it
\* makes exactly one vendor call, to the image endpoint for 'image' and to the
\* video endpoint for 'video'.
C13_SubmitValidation ==
    (greq.method = "POST" /\ gpc = "done") =>
        IF ValidPrompt /\ greq.type \in {"image", "video"}
        THEN /\ Len(gcalls) = 1
             /\ gcalls[1].method = "POST"
             /\ gcalls[1].body.prompt = greq.prompt
             /\ greq.type = "image" =>
                  gcalls[1].endpoint = "https://api.mulerouter.ai/vendors/google/v1/nano-banana-pro/generation"
             /\ greq.type = "video" =>
                  gcalls[1].endpoint = "https://api.mulerouter.ai/vendors/alibaba/v1/wan2/t2v/generation"
        ELSE /\ gresp.http = 400
             /\ ErrorBodyOnly
             /\ gcalls = <<>>

C13_Witness ==
    /\ greq.method = "POST"
    /\ gpc = "done"
    /\ greq.prompt = "a cat"
    /\ greq.type = "audio"
    /\ gresp.http = 400
    /\ gcalls = <<>>

\* C14: when the vendor answers POST /generate with a non-success status the
\* route's status is the vendor's and the body is an error without taskId; when
\* the vendor call throws the route answers 500; the vendor is called once.
C14_SubmitFailureStatus ==
    (greq.method = "POST" /\ gpc = "done") =>
        /\ gvendor.kind = "status" =>
             /\ gresp.http = gvendor.status
             /\ ErrorBodyOnly
             /\ Len(gcalls) = 1
        /\ gvendor.kind = "throw" =>
             /\ gresp.http = 500
             /\ ErrorBodyOnly
             /\ Len(gcalls) = 1

C14_Witness ==
    /\ greq.method = "POST"
    /\ gpc = "done"
    /\ gvendor.kind = "status"
    /\ gvendor.status = 429
    /\ gresp.http = 429

--------------------------------------------------------------------------
(* Chat UI: properties *)

\* the exchanges awaiting the relay's response or reading its stream
InFlight == Len(exchanges)

\* a send attempt would pass every condition of the guard but the loading one
SendableButLoading ==
    /\ trimInput(input) # "" \/ pastedImage # NoImage
    /\ sends < MaxSends
    /\ isLoading

\* C16: at most one exchange is in flight at any time; the UI is loading
\* exactly while an exchange is in flight, and a send attempt made while
\* loading dispatches no request and changes no state.
C16_OneExchangeInFlight ==
    /\ [](InFlight <= 1 /\ (isLoading <=> InFlight = 1))
    /\ [][(UISend /\ isLoading) => UNCHANGED vars]_vars

\* an exchange is streaming and the input holds a text a send would accept
C16_Witness ==
    /\ SendableButLoading
    /\ InFlight = 1
    /\ exchanges[1].phase = "streaming"


IsPrefixSeq(s, t) == Len(s) <= Len(t) /\ SubSeq(t, 1, Len(s)) = s

\* the step appends to the conversation and keeps what was there
AppendsMessages == Len(messages) < Len(messages') /\ IsPrefixSeq(messages, messages')

\* the step replaces the trailing assistant message and keeps the others
ReplacesTrailingAssistant ==
    /\ Len(messages) = Len(messages')
    /\ messages # <<>>
    /\ Last(messages).role = "assistant"
    /\ Last(messages').role = "assistant"
    /\ Front(messages') = Front(messages)

\* C17: apart from clear-conversation steps, every update of the conversation
\* either appends to it or replaces its trailing assistant message; the
\* messages before that, the user message just sent included, keep their
\* role and content.
C17_ConversationAppendOnly ==
    [][(messages' # messages /\ ~UIClear)
        => (AppendsMessages \/ ReplacesTrailingAssistant)]_vars


\* C18: the clear-conversation action leaves the conversation empty and no
\* document attached, and an empty conversation stays empty until the next
\* accepted send, whatever arrives from an exchange that is in flight.
C18_ClearedStaysEmpty ==
    /\ [][UIClear => (messages' = <<>> /\ uploadedDoc' = NoDoc)]_vars
    /\ [][(messages = <<>> /\ messages' # <<>>) => sends' = sends + 1]_vars


\* the message's content includes the text of an attached document
ContainsDocumentText(m) ==
    \E i \in 1..Len(m.content) : \E doc \in Docs : m.content[i] = doc.text

\* the requests dispatched and not yet answered
RequestsInFlight ==
    {exchanges[i].request : i \in {j \in 1..Len(exchanges) : exchanges[j].phase = "fetching"}}

\* C19: a request carries the document text at most in its new user message
\* and only when it was sent from an empty conversation; no message shown in
\* the conversation contains the document text.
C19_DocumentOnlyInFirstSend ==
    /\ \A r \in RequestsInFlight :
        /\ \A i \in 1..(Len(r.messages) - 1) : ~ContainsDocumentText(r.messages[i])
        /\ Len(r.messages) > 1 => ~ContainsDocumentText(Last(r.messages))
    /\ \A i \in 1..Len(messages) : ~ContainsDocumentText(messages[i])


\* C20: an accepted send attaches the image in the slot (or none, when the
\* slot is empty) to the user message it sends and shows, and leaves the slot
\* empty; the slot receives an image only from a paste, which replaces what
\* the slot held.
C20_ImageSlot ==
    /\ [][sends' = sends + 1
          => /\ Last(Last(exchanges').request.messages).image = pastedImage
             /\ Last(messages').image = pastedImage
             /\ pastedImage' = NoImage]_vars
    /\ [][(pastedImage' # pastedImage /\ pastedImage' # NoImage) => UIPaste]_vars
    /\ [][UIPaste => pastedImage' \in PastedImages \ {pastedImage}]_vars

\* a second send is in flight: its request carries the image of the first
\* send in the first message and another image in the new message, and the
\* slot is empty
C20_Witness ==
    /\ pastedImage = NoImage
    /\ \E r \in RequestsInFlight :
        /\ Len(r.messages) = 3
        /\ r.messages[1].image # NoImage
        /\ r.messages[3].image # NoImage
        /\ r.messages[3].image # r.messages[1].image


\* the index of the first sentinel line of a chunk, or one past its end
FirstDone(chunk) ==
    IF \E i \in 1..Len(chunk) : chunk[i].kind = "done"
    THEN CHOOSE i \in 1..Len(chunk) :
            chunk[i].kind = "done" /\ \A j \in 1..(i - 1) : chunk[j].kind # "done"
    ELSE Len(chunk) + 1

IsFragmentLine(line) == line.kind = "content" /\ line.text # ""

\* the content fragments of a chunk that precede its first sentinel line
FragmentsOf(chunk) ==
    LET kept == SelectSeq(SubSeq(chunk, 1, FirstDone(chunk) - 1), IsFragmentLine)
    IN  [i \in 1..Len(kept) |-> kept[i].text]

\* the fragments processed so far, in arrival order
FragmentsProcessed(x) ==
    Concat([c \in 1..Len(x.received) |-> FragmentsOf(x.received[c])])

\* C21: while a stream is in flight, the assistant text accumulated is the
\* concatenation, in arrival order, of the fragments processed so far; once
\* a fragment has been processed and unless the conversation was cleared
\* since, the conversation is the one shown at the send followed by one
\* assistant message with that text.
C21_CumulativeConcatenation ==
    \A i \in 1..Len(exchanges) :
        exchanges[i].phase = "streaming"
        => /\ exchanges[i].assistant = FragmentsProcessed(exchanges[i])
           /\ (exchanges[i].assistant # <<>> /\ messages # <<>>)
              => /\ Last(messages) = assistantMessage(FragmentsProcessed(exchanges[i]))
                 /\ Front(messages) = exchanges[i].display

\* two fragments that arrived in two chunks are shown, in order
C21_Witness ==
    \E i \in 1..Len(exchanges) :
        /\ exchanges[i].phase = "streaming"
        /\ Len(exchanges[i].received) = 2
        /\ exchanges[i].assistant = <<"a", "b">>
        /\ Len(messages) = 4
        /\ Last(messages).content = <<"a", "b">>


--------------------------------------------------------------------------
(* Stream reader: properties *)

\* the chunk a step of the read loop has taken off the byte stream
DeliveredChunk == SubSeq(rWire, 1, Len(rWire) - Len(rWire'))

\* C22: once a sentinel line has been read no later data line changes the
\* assistant text: a chunk adds the fragments that precede its first sentinel
\* line only, and a chunk read after a sentinel adds nothing.
C22_NothingAfterSentinel ==
    /\ [][rWire' # rWire
          => rAssistant' = rAssistant \o FragmentsOf(linesOf(DeliveredChunk))]_vars
    /\ [][rSentinel => rAssistant' = rAssistant]_vars


\* the fragments of the content events, in the order the relay emitted them
EmittedFragments ==
    LET content == SelectSeq(rEmitted, IsFragmentLine)
    IN  [i \in 1..Len(content) |-> content[i].text]

\* the relay emits its fragments and then at most its sentinel
FragmentsThenSentinel ==
    \A i \in 1..Len(rEmitted) :
        rEmitted[i] = DoneLine => i = Len(rEmitted)

\* C23: however the transport cuts the relay's byte stream into chunks, the
\* assistant text when the stream completes is the concatenation of all the
\* fragments the relay emitted.
C23_NoFragmentLost ==
    (rpc = "closed" /\ FragmentsThenSentinel) => rAssistant = EmittedFragments


--------------------------------------------------------------------------
(* Chat UI: failures, phases and requests *)

\* the step is the failure of the exchange in flight: a response that is not
\* OK or a transport error, or a read error in mid-stream
ExchangeFails ==
    \/ UIResponse /\ Len(exchanges') < Len(exchanges)
    \/ UIStreamError

\* C24: when the exchange fails, the conversation becomes the one shown at
\* the send, which ends with the user message just sent, followed by one
\* assistant message whose content is the fixed apology, whatever text had
\* been streamed, and the UI leaves the loading state.
C24_FailureShowsApology ==
    [][ExchangeFails
        => /\ Len(messages') >= 2
           /\ Last(messages') =
                [role |-> "assistant",
                 content |-> <<"Sorry, something went wrong. Please try again.">>,
                 image |-> NoImage]
           /\ Front(messages') = exchanges[1].display
           /\ Last(Front(messages')).role = "user"
           /\ isLoading' = FALSE]_vars

\* a failure has replaced the text streamed so far
C24_Witness ==
    /\ ~isLoading
    /\ exchanges = <<>>
    /\ sends = 1
    /\ messages # <<>>
    /\ Last(messages).content = <<Apology>>
    /\ Len(messages) = 2


EmptyAssistant == [role |-> "assistant", content |-> <<>>, image |-> NoImage]

\* the request of an exchange has been dispatched and no response has arrived
Sending(x) == x.phase = "fetching"

C26_EventuallyIdle ==
    /\ []<>(~isLoading)
    /\ [](~isLoading => (InFlight = 0 /\ canSend("hi", NoImage, isLoading)))

\* the UI is idle again after a stream that was read to its end
C26_Witness ==
    /\ ~isLoading
    /\ InFlight = 0
    /\ sends = 1
    /\ messages # <<>>
    /\ Last(messages).content = <<"a", "b">>


--------------------------------------------------------------------------
(* Chat relay: failure in mid-stream *)

\* C27: on the groq path, when the vendor stream fails after the streaming
\* response has started, the response body is in the error state, it holds
\* no sentinel and exactly the events of the vendor's non-empty fragments
\* delivered so far, and the response keeps its status 200.
C27_MidStreamFailure ==
    (Called("groq") /\ callOutcome = "ok" /\ vendorState = "failed")
        => /\ outState = "errored"
           /\ \A i \in 1..Len(out) : out[i] # DoneEvent
           /\ out = FragmentEvents(vendorChunks)
           /\ resp.status = 200

\* the vendor stream failed after an empty and a non-empty fragment
C27_Witness ==
    /\ Called("groq")
    /\ callOutcome = "ok"
    /\ vendorState = "failed"
    /\ Len(vendorChunks) = 2
    /\ Len(out) = 1


--------------------------------------------------------------------------
(* Chat UI: shape of the conversation and of the requests *)

\* user, assistant, user, assistant, ...
Alternates(ms) ==
    \A i \in 1..Len(ms) : ms[i].role = IF i % 2 = 1 THEN "user" ELSE "assistant"

\* C28: whenever the UI is not loading, the conversation has even length and
\* alternates user, assistant from a user message on; every request
\* dispatched has a non-empty message list that ends with a user message.
C28_AlternatingConversation ==
    /\ ~isLoading => (Len(messages) % 2 = 0 /\ Alternates(messages))
    /\ \A r \in RequestsInFlight :
        r.messages # <<>> /\ Last(r.messages).role = "user"

\* two exchanges are over: the first streamed two fragments, the second
\* failed
C28_Witness ==
    /\ ~isLoading
    /\ sends = 2
    /\ Len(messages) = 4
    /\ messages[2].content = <<"a", "b">>
    /\ messages[4].content = <<Apology>>


ModelIds == {MODELS[i].id : i \in 1..Len(MODELS)}

\* MODELS lists the provider p for the model id
Lists(id, p) == \E i \in 1..Len(MODELS) : MODELS[i].id = id /\ MODELS[i].provider = p

\* C29: the component with the model picker always has a model of MODELS
\* selected, and every request it dispatches carries that kind of model id
\* together with the provider MODELS lists for it; a request of the other
\* components carries neither. The provider looked up for each model of
\* MODELS is the listed one.
C29_ModelAndProviderFromList ==
    /\ \A i \in 1..Len(MODELS) : providerOf(MODELS[i].id) = MODELS[i].provider
    /\ uiVariant = "models" => selectedModel \in ModelIds
    /\ \A r \in RequestsInFlight :
        IF uiVariant = "models"
        THEN r.model \in ModelIds /\ Lists(r.model, r.provider)
        ELSE r.model = Undefined /\ r.provider = Undefined

\* a request is in flight that was sent after a qwen model was picked
C29_Witness ==
    /\ uiVariant = "models"
    /\ \E r \in RequestsInFlight :
        /\ r.model = "qwen3-max"
        /\ r.provider = "qwen"
        /\ Len(r.messages) = 3


--------------------------------------------------------------------------
(* Generate route: the type parameter of GET *)

\* a GET with a task id and a non-empty type other than 'image' has been answered
PolledOtherType ==
    /\ greq.method = "GET"
    /\ gpc = "done"
    /\ greq.taskId \notin {Undefined, ""}
    /\ greq.type \notin {Undefined, "", "image"}

PolledVideoEndpoint ==
    /\ Len(gcalls) = 1
    /\ gcalls[1].method = "GET"
    /\ gcalls[1].endpoint = "https://api.mulerouter.ai/vendors/alibaba/v1/wan2/t2v/generation"
    /\ gcalls[1].taskId = greq.taskId

\* C30 as stated: for a GET /generate with a non-empty type other than
\* 'image' the poll goes to the video status endpoint and the answer is never
\* a 400.
C30_NoFourHundred ==
    PolledOtherType => (PolledVideoEndpoint /\ gresp.http # 400)

\* C30: GET /generate with a task id and any non-empty type other than
\* 'image' ('video' or not) issues exactly one poll, to the video status
\* endpoint, and never answers with the validation error; its status is 400
\* only when the vendor answered the poll with 400. POST /generate with a
\* prompt and a non-empty type that is neither 'image' nor 'video' answers 400
\* 'Invalid type' and calls no vendor.
C30_PollUnvalidatedType ==
    /\ PolledOtherType =>
         /\ PolledVideoEndpoint
         /\ "error" \in DOMAIN gresp.body =>
              gresp.body.error.msg = "Failed to check status"
         /\ gresp.http = 400 => (gvendor.kind = "status" /\ gvendor.status = 400)
         /\ gvendor.kind = "ok" => gresp.http = 200
    /\ (/\ greq.method = "POST"
        /\ gpc = "done"
        /\ ValidPrompt
        /\ greq.type \notin {Undefined, "", "image", "video"}) =>
         /\ gresp.http = 400
         /\ gresp.body = [error |-> [msg |-> "Invalid type. Use \"image\" or \"video\"", code |-> 0]]
         /\ gcalls = <<>>

\* a poll of type 'audio' went to the video endpoint and was answered 200
C30_Witness ==
    /\ PolledOtherType
    /\ greq.type = "audio"
    /\ PolledVideoEndpoint
    /\ gvendor.kind = "ok"
    /\ gresp.http = 200

====
